---- MODULE Spec2Model ----
(***************************************************************************)
(* Model of the render pipeline of src/server.ts: the POST /render handler *)
(* and processVideoAsync, with the concurrent image downloads of a batch,  *)
(* the external invocations (engine, probe, cp, rm) and the chunked        *)
(* response stream.  Times are integers in microseconds (ffprobe prints    *)
(* six decimals), so toFixed(3) is a rounding to the millisecond.          *)
(* An action is the code between two awaits that can interleave with the   *)
(* downloads.  The write of the concat manifest is taken to succeed, and   *)
(* the artifact read back is large enough for the data-URL length check.   *)
(* Spec is the pipeline; FairSpec adds invocations that never answer,      *)
(* under a fair event loop.  StrategySpec, FilterSpec, WrapSpec,           *)
(* EscapeSpec, OptionSpec, FrameSpec, GraphSpec, WindowSpec, AlphaSpec and *)
(* PulseSpec each apply one helper of the code to arguments drawn from a   *)
(* bounded set (args, value).  ExecSpec is execFFmpeg with its child       *)
(* process and timer (engine).                                             *)
(***************************************************************************)
EXTENDS Integers, Sequences, FiniteSets, TLC

VARIABLES
    body,                 \* req.body: segments, audioUrl, options.transitionType
    pc,                   \* position of processVideoAsync / the handler
    workDirExists,        \* the directory /tmp/ffmpeg-<jobId> exists
    files,                \* intermediate files inside the working directory
    dl,                   \* state of the download promise of each segment
    launched,             \* number of download promises created by the loop
    res,                  \* chunks written to the response, in order
    calls,                \* external invocations made, in order
    actualAudioDuration,  \* let actualAudioDuration (0 until set)
    audioMeta,            \* what ffprobe reports for the downloaded audio file
    earlyOut,             \* answer of the ffprobe run after the audio download
    reconcileOut,         \* answer of the ffprobe run at the reconcile stage
    clipPaths,            \* number of clips pushed to clipPaths
    fallbackTried,        \* number of fast-path retries after a failed xfade
    verifyOut,            \* report of the post-mux ffprobe
    result,               \* value returned by processVideoAsync
    error,                \* stage of the error thrown by processVideoAsync
    rmFailed,             \* an rm -rf of cleanup exited non-zero
    emptyImages,          \* segments whose image file was written with 0 bytes
    engine,               \* the invocations of execFFmpeg being followed
    args,                 \* arguments of the helper function being applied
    value                 \* the value it returned (NoValue before the call)

\* The probe answers, as a group.
probes == <<audioMeta, earlyOut, reconcileOut>>

vars == <<body, pc, workDirExists, files, dl, launched, res, calls,
          actualAudioDuration, probes, clipPaths,
          fallbackTried, verifyOut, result, error, rmFailed, emptyImages,
          engine, args, value>>

\* ---------------------------------------------------------------- bounds
MaxSegments == 4

\* ------------------------------------------------------ program constants
batchSize == 3
MaxTransitionClips == 10
DurationTolerance == 100000
ValidationTolerance == 500000

Sec == 1000 * 1000
DefaultDuration == 3 * Sec

\* ------------------------------------------------------------ input sets
\* 0 stands for a missing or zero duration (both are falsy in the code).
DurationValues == {0, 3 * Sec, 4 * Sec}
TransitionTypes == {"none", "fade"}
\* Durations the audio file may have, as ffprobe prints them.
AudioDurations == {300000, 9 * Sec, 9100000, 12345600, 12400000}

Min(a, b) == IF a < b THEN a ELSE b
Abs(x) == IF x < 0 THEN 0 - x ELSE x

\* Math.round of the quotient a / b of naturals, b > 0 (half rounds up).
Round(a, b) == (2 * a + b) \div (2 * b)

\* Number.prototype.toFixed(3) of a non-negative time, as the time the
\* printed decimal denotes: the nearest millisecond, a tie rounding up.
ToFixed3(x) == ((x + 500) \div 1000) * 1000

RECURSIVE SumWith(_, _)
\* segments.reduce((sum, s) => sum + (s.duration || dflt), 0)
SumWith(segs, dflt) ==
    IF segs = <<>> THEN 0
    ELSE (IF Head(segs).duration = 0 THEN dflt ELSE Head(segs).duration)
         + SumWith(Tail(segs), dflt)

EstimatedDuration(segs) == SumWith(segs, DefaultDuration)
CalculatedVideoDuration(segs) == SumWith(segs, 0)

\* ----------------------------------------------------------- the request
Segment(d, u) == [duration |-> d, imageUrl |-> u]

\* Duration lists of length n; the pipeline only sums the durations, so a
\* missing duration is tried in the first position only.
DurationLists(n) ==
    { ds \in [1..n -> DurationValues] : \A i \in 2..n : ds[i] # 0 }

\* Segment lists of 0..MaxSegments segments; every segment has its imageUrl,
\* or the first or the last one lacks it.
SegmentLists ==
    UNION { { [i \in 1..n |-> Segment(ds[i], i # bad)] :
                ds \in DurationLists(n), bad \in {0, 1, n} } :
            n \in 0..MaxSegments }

\* segKind: body.segments is an array, is missing, or is not an array.
Bodies ==
    { [segKind |-> "array", segments |-> segs, audioUrl |-> a,
       transitionType |-> tt] :
        segs \in SegmentLists, a \in BOOLEAN, tt \in TransitionTypes }
    \cup
    { [segKind |-> k, segments |-> <<>>, audioUrl |-> TRUE,
       transitionType |-> "fade"] : k \in {"missing", "notArray"} }

segments == body.segments
NumSegments == Len(body.segments)

\* ------------------------------------------------------ response chunks
Chunk(t, p, url, size, dur, err) ==
    [t |-> t, p |-> p, videoUrl |-> url, videoSize |-> size,
     duration |-> dur, error |-> err]

ProcessingChunk == Chunk("processing", 0, FALSE, 0, 0, "")
\* onProgress: the handler's callback writes the update to the response.
Progress(p) == Chunk("progress", p, FALSE, 0, 0, "")

NoResult == [defined |-> FALSE, videoUrl |-> FALSE, videoSize |-> 0, duration |-> 0]

\* finalResponse = { success: true, ...result, status: 'completed' }
FinalResponse(r) == Chunk("completed", 0, r.videoUrl, r.videoSize, r.duration, "")
\* errorResponse = { success: false, error: errorMessage, status: 'failed' }
ErrorResponse(e) == Chunk("failed", 0, FALSE, 0, 0, e)

Call(cmd, arg) == [cmd |-> cmd, arg |-> arg]

NoProbe == [kind |-> "none", us |-> 0]

\* No helper call is being looked at / the helper has not returned yet.
NoValue == [fn |-> "none"]

\* The execFFmpeg invocations followed one by one: the transition run of
\* Step 4 and the fast-path run its catch block starts.
Invocations == 1..2

\* No invocation of execFFmpeg has been made: no child, no timer, no promise.
NoEngine ==
    [k \in Invocations |->
        [child |-> "none", exit |-> "none", errorPending |-> FALSE,
         timer |-> "none", promise |-> "none", signalled |-> FALSE,
         handled |-> <<>>]]

\* ffprobe's report of the final artifact; duration -1 stands for "N/A".
NoVerify == [ran |-> FALSE, ok |-> FALSE, hasAudio |-> FALSE, duration |-> 0]

Init ==
    /\ body \in Bodies
    /\ pc = "mkdir"
    /\ workDirExists = FALSE
    /\ files = {}
    /\ dl = [i \in 1..Len(body.segments) |-> "idle"]
    /\ launched = 0
    /\ res = <<ProcessingChunk>>
    /\ calls = <<>>
    /\ actualAudioDuration = 0
    /\ audioMeta = NoProbe
    /\ earlyOut = NoProbe
    /\ reconcileOut = NoProbe
    /\ clipPaths = 0
    /\ fallbackTried = 0
    /\ verifyOut = NoVerify
    /\ result = NoResult
    /\ error = ""
    /\ rmFailed = FALSE
    /\ emptyImages = {}
    /\ engine = NoEngine
    /\ args = NoValue
    /\ value = NoValue

\* ------------------------------------------------- decisions of the code
\* !segments || !Array.isArray(segments) || segments.length === 0
SegmentsRejected(b) == b.segKind # "array" \/ Len(b.segments) = 0
\* !audioUrl
AudioUrlRejected(b) == ~b.audioUrl

\* onProgress({ stage: 'downloading_images',
\*              progress: 5 + Math.round((i + 1) / segments.length * 10) })
\* for the segment at 1-based position idx = i + 1.
ImageProgress(idx, n) == 5 + Round(idx * 10, n)
\* progress: 30 + Math.round((i / segments.length) * 20), i 0-based.
ClipProgress(i, n) == 30 + Round(i * 20, n)

\* CurrentBatch holding the last promise created only.
CurrentBatchLastOnly == IF launched = 0 THEN {} ELSE {launched}

\* The promises awaited by the pending Promise.all: the last batch launched.
CurrentBatch ==
    IF launched = 0 THEN {}
    ELSE (((launched - 1) \div batchSize) * batchSize + 1)..launched

\* One round of the download loop up to its await Promise.all: promises for
\* the next batchSize segments (fewer at the end of the list) are created;
\* a segment without imageUrl rejects at once, the others start a fetch.
NextBatch == (launched + 1)..Min(launched + batchSize, NumSegments)
LaunchedDl ==
    [i \in 1..NumSegments |->
        IF i \in NextBatch
        THEN (IF segments[i].imageUrl THEN "fetching" ELSE "failed")
        ELSE dl[i]]

RECURSIVE FetchCalls(_, _)
FetchCalls(from, to) ==
    IF from > to THEN <<>>
    ELSE (IF segments[from].imageUrl THEN <<Call("fetch_image", from)>> ELSE <<>>)
         \o FetchCalls(from + 1, to)

\* ConcatStrategy with the fast path taken from the threshold itself on.
ConcatStrategyInclusive(n, clips, tt) ==
    IF n = 1 THEN "copy"
    ELSE IF tt = "none" \/ clips >= MaxTransitionClips THEN "fast"
    ELSE "transition"

\* Which concatenation the code runs for n segments / clips.
ConcatStrategy(n, clips, tt) ==
    IF n = 1 THEN "copy"
    ELSE IF tt = "none" \/ clips > MaxTransitionClips THEN "fast"
    ELSE "transition"

\* ------------------------------------------------------------ the probes
ProbeFail == [kind |-> "fail", us |-> 0]
ProbeNA == [kind |-> "na", us |-> 0]
ProbeNum(v) == [kind |-> "num", us |-> v]
\* What `ffprobe -show_entries format=duration` can print for an audio file:
\* "N/A", or a number with six decimals.
AudioMetas ==
    {ProbeNA, ProbeNum(0), ProbeNum(0 - Sec)} \cup { ProbeNum(v) : v \in AudioDurations }
\* What one execAsync(ffprobe ...) of the file answers: its report, or the
\* command fails.
ProbeAnswers(meta) == {ProbeFail, meta}

\* parseFloat(stdout.trim()): NaN for "N/A" or empty output.
ParseFloat(o) == [nan |-> o.kind # "num", v |-> IF o.kind = "num" THEN o.us ELSE 0]

\* Early probe (after the audio download): parseFloat(..) || 0, then the
\* estimate when the value is 0 or NaN, or when ffprobe failed.
EarlyUsesEstimate(o) ==
    \/ o.kind = "fail"
    \/ ParseFloat(o).nan
    \/ ParseFloat(o).v = 0
\* EarlyAudioDuration that keeps parseFloat(..) || 0 as it is.
EarlyAudioDurationNoEstimate(o, segs) == ParseFloat(o).v

EarlyAudioDuration(o, segs) ==
    IF EarlyUsesEstimate(o) THEN EstimatedDuration(segs) ELSE ParseFloat(o).v

\* ReconcileProbeInvalid with the early probe's test (0 or NaN only).
ReconcileProbeInvalidAsEarly(o) ==
    \/ o.kind = "fail"
    \/ ParseFloat(o).nan
    \/ ParseFloat(o).v = 0

\* Reconcile probe: !probedDuration || isNaN(probedDuration) || probedDuration <= 0
ReconcileProbeInvalid(o) ==
    \/ o.kind = "fail"
    \/ ParseFloat(o).nan
    \/ ParseFloat(o).v <= 0

\* ReconcileDecision with >= in place of > in the tolerance test.
ReconcileDecisionInclusive(audio, video) ==
    LET durationDiff == audio - video IN
    IF Abs(durationDiff) >= DurationTolerance
    THEN (IF durationDiff > 0 THEN "extend" ELSE "trim")
    ELSE "none"

\* Math.abs(durationDiff) > 0.1, then durationDiff > 0 ? extend : trim
ReconcileDecision(audio, video) ==
    LET durationDiff == audio - video IN
    IF Abs(durationDiff) > DurationTolerance
    THEN (IF durationDiff > 0 THEN "extend" ELSE "trim")
    ELSE "none"
\* tpad stop_duration=${durationDiff.toFixed(3)}
ExtendArg(audio, video) == ToFixed3(audio - video)
\* -t actualAudioDuration.toFixed(3) of the trim and of the mux
TrimArg(audio) == ToFixed3(audio)
MuxArg(audio) == ToFixed3(audio)

\* Reports of the post-mux ffprobe for a target t.
VerifyReports(t) ==
    {[ran |-> TRUE, ok |-> FALSE, hasAudio |-> FALSE, duration |-> 0],
     [ran |-> TRUE, ok |-> TRUE, hasAudio |-> FALSE, duration |-> t]}
    \cup { [ran |-> TRUE, ok |-> TRUE, hasAudio |-> TRUE, duration |-> d] :
             d \in {-1, t, t + ValidationTolerance, t + ValidationTolerance + 1} }

\* durationMatch ? parseFloat(durationMatch[1]) : 0
FinalDuration(rep) == IF rep.duration < 0 THEN 0 ELSE rep.duration

\* The validation block does not throw.
ValidationPasses(rep, audio) ==
    /\ rep.ok
    /\ rep.hasAudio
    /\ ~(Abs(FinalDuration(rep) - audio) > ValidationTolerance)

\* ResultDuration that always reports the estimate.
ResultDurationEstimate(audio, segs) == EstimatedDuration(segs)

\* result.duration: actualAudioDuration || estimate
ResultDuration(audio, segs) == IF audio # 0 THEN audio ELSE EstimatedDuration(segs)

\* --------------------------------------------------------------- actions
\* The catch block of processVideoAsync, entered with error e while the
\* response holds `stream` and the invocation log is `log`: cleanup(workDir)
\* starts rm -rf when the directory exists; otherwise the error is re-thrown
\* at once and the handler writes the failed response and ends it.
Throw(e, exists, stream, log) ==
    /\ error' = e
    /\ IF exists
       THEN /\ pc' = "cleanup_err"
            /\ calls' = Append(log, Call("rm", 0))
            /\ res' = stream
       ELSE /\ pc' = "ended"
            /\ calls' = log
            /\ res' = Append(stream, ErrorResponse(e))

\* A value is returned: the handler writes the completed response.
Return(r, stream) ==
    /\ result' = r
    /\ pc' = "ended"
    /\ res' = Append(stream, FinalResponse(r))

\* await mkdir(workDir), then the synchronous code up to the first
\* await Promise.all of the download loop.
Mkdir ==
    /\ pc = "mkdir"
    /\ \E ok \in BOOLEAN :
        IF ~ok
        THEN /\ Throw("mkdir", FALSE, res, calls)
             /\ UNCHANGED <<workDirExists, dl, launched, result>>
        ELSE /\ workDirExists' = TRUE
             /\ IF SegmentsRejected(body) \/ AudioUrlRejected(body)
                THEN /\ Return(NoResult, Append(res, Progress(0)))
                     /\ UNCHANGED <<dl, launched, calls, error>>
                ELSE /\ res' = res \o <<Progress(0), Progress(5)>>
                     /\ dl' = LaunchedDl
                     /\ launched' = Min(launched + batchSize, NumSegments)
                     /\ calls' = calls \o FetchCalls(launched + 1,
                                    Min(launched + batchSize, NumSegments))
                     /\ pc' = "await_batch"
                     /\ UNCHANGED <<result, error>>
    /\ UNCHANGED <<engine, args, value, emptyImages, body, files, actualAudioDuration, probes, clipPaths,
                   fallbackTried, verifyOut, rmFailed>>

\* Lengths of the body a 2xx image response may carry; the empty body is
\* tried for the first segment of requests with one or two segments.
BodyLengths(i) == IF i = 1 /\ NumSegments <= 2 THEN {0, 1} ELSE {1}

\* fetch and arrayBuffer of segment i answered; writeFile opened the file and
\* writes the body, whatever its length.
DownloadOpen(i) ==
    /\ dl[i] = "fetching"
    /\ workDirExists
    /\ dl' = [dl EXCEPT ![i] = "writing"]
    /\ files' = files \cup {<<"image", i>>}
    /\ \E byteLength \in BodyLengths(i) :
          emptyImages' = IF byteLength = 0 THEN emptyImages \cup {i}
                         ELSE emptyImages
    /\ UNCHANGED <<engine, args, value, body, pc, workDirExists, launched, res, calls,
                   actualAudioDuration, probes, clipPaths, fallbackTried,
                   verifyOut, result, error, rmFailed>>

\* The download of segment i throws: a network error, a non-2xx response, or
\* writeFile into a directory that no longer exists.
DownloadFail(i) ==
    /\ dl[i] = "fetching"
    /\ dl' = [dl EXCEPT ![i] = "failed"]
    /\ UNCHANGED <<engine, args, value, emptyImages, body, pc, workDirExists, files, launched, res, calls,
                   actualAudioDuration, probes, clipPaths, fallbackTried,
                   verifyOut, result, error, rmFailed>>

\* writeFile resolved: the progress update of segment i is delivered and the
\* 100 ms delay starts.
DownloadWritten(i) ==
    /\ dl[i] = "writing"
    /\ dl' = [dl EXCEPT ![i] = "delay"]
    /\ res' = Append(res, Progress(ImageProgress(i, NumSegments)))
    /\ UNCHANGED <<engine, args, value, emptyImages, body, pc, workDirExists, files, launched, calls,
                   actualAudioDuration, probes, clipPaths, fallbackTried,
                   verifyOut, result, error, rmFailed>>

\* The 100 ms delay elapsed: the download promise of segment i resolves.
DownloadDelay(i) ==
    /\ dl[i] = "delay"
    /\ dl' = [dl EXCEPT ![i] = "done"]
    /\ UNCHANGED <<engine, args, value, emptyImages, body, pc, workDirExists, files, launched, res, calls,
                   actualAudioDuration, probes, clipPaths, fallbackTried,
                   verifyOut, result, error, rmFailed>>

\* AllResolved with Promise.allSettled in place of Promise.all.
AllSettled(batch) == \A i \in batch : dl[i] \in {"done", "failed"}

\* await Promise.all(batch) resolves: every promise of the batch resolved.
AllResolved(batch) == \A i \in batch : dl[i] = "done"

\* Promise.all of the batch resolved: the loop launches the next batch, or,
\* after the last one, the audio download starts.
BatchResolved ==
    /\ pc = "await_batch"
    /\ AllResolved(CurrentBatch)
    /\ IF launched < NumSegments
       THEN /\ dl' = LaunchedDl
            /\ launched' = Min(launched + batchSize, NumSegments)
            /\ calls' = calls \o FetchCalls(launched + 1,
                           Min(launched + batchSize, NumSegments))
            /\ UNCHANGED <<pc, res>>
       ELSE /\ res' = res \o <<Progress(15), Progress(20)>>
            /\ calls' = Append(calls, Call("fetch_audio", 0))
            /\ pc' = "audio"
            /\ UNCHANGED <<dl, launched>>
    /\ UNCHANGED <<engine, args, value, emptyImages, body, workDirExists, files, actualAudioDuration,
                   probes, clipPaths, fallbackTried, verifyOut, result,
                   error, rmFailed>>

\* Promise.all of the batch rejected: one of its downloads failed.
BatchRejected ==
    /\ pc = "await_batch"
    /\ \E i \in CurrentBatch : dl[i] = "failed"
    /\ Throw("image", workDirExists, res, calls)
    /\ UNCHANGED <<engine, args, value, emptyImages, body, workDirExists, files, dl, launched,
                   actualAudioDuration, probes, clipPaths, fallbackTried,
                   verifyOut, result, rmFailed>>

\* Step 2: the audio is fetched, written and stat-ed; then ffprobe starts.
DownloadAudio ==
    /\ pc = "audio"
    /\ \E ok \in BOOLEAN, meta \in AudioMetas :
        IF ok
        THEN /\ files' = files \cup {<<"audio", 0>>}
             /\ audioMeta' = meta
             /\ calls' = Append(calls, Call("ffprobe_audio", 0))
             /\ pc' = "early_probe"
             /\ UNCHANGED <<res, error>>
        ELSE /\ Throw("audio", workDirExists, res, calls)
             /\ UNCHANGED <<files, audioMeta>>
    /\ UNCHANGED <<engine, args, value, emptyImages, body, workDirExists, dl, launched, actualAudioDuration,
                   earlyOut, reconcileOut, clipPaths, fallbackTried, verifyOut,
                   result, rmFailed>>

\* The early ffprobe answered; then Step 3 starts the first clip.
EarlyProbe ==
    /\ pc = "early_probe"
    /\ \E o \in ProbeAnswers(audioMeta) :
        /\ actualAudioDuration' = EarlyAudioDuration(o, segments)
        /\ earlyOut' = o
    /\ res' = res \o <<Progress(25), Progress(30),
                       Progress(ClipProgress(0, NumSegments))>>
    /\ calls' = Append(calls, Call("ffmpeg_clip", 1))
    /\ pc' = "clip"
    /\ UNCHANGED <<engine, args, value, emptyImages, body, workDirExists, files, dl, launched, clipPaths, audioMeta, reconcileOut,
                   fallbackTried, verifyOut, result, error, rmFailed>>

\* Step 4 up to its first await, entered when the last clip exists.
StartConcat(stream, log) ==
    LET strategy == ConcatStrategy(NumSegments, NumSegments, body.transitionType) IN
    /\ res' = stream \o <<Progress(50), Progress(55)>>
    /\ IF strategy = "copy"
       THEN /\ calls' = Append(log, Call("cp", 0))
            /\ pc' = "copy"
       ELSE IF strategy = "fast"
       THEN /\ calls' = Append(log, Call("ffmpeg_concat", 0))
            /\ pc' = "concat_fast"
       ELSE /\ calls' = Append(log, Call("ffmpeg_xfade", 0))
            /\ pc' = "concat_xfade"

\* The clip loop stopping one segment early.
MoreSegmentsButLast(done, n) == done + 1 < n

\* for (let i = 0; i < segments.length; i++): after `done` clips were pushed
\* the loop goes on with segment done + 1.
MoreSegments(done, n) == done < n

\* execFFmpeg of the clip of segment clipPaths + 1 settled.
ClipDone ==
    /\ pc = "clip"
    /\ \E ok \in BOOLEAN :
        IF ~ok
        THEN /\ Throw("clip", workDirExists, res, calls)
             /\ UNCHANGED <<clipPaths, files>>
        ELSE /\ clipPaths' = clipPaths + 1
             /\ IF MoreSegments(clipPaths + 1, NumSegments)
                THEN /\ files' = files \cup {<<"clip", clipPaths + 1>>}
                     /\ res' = Append(res,
                            Progress(ClipProgress(clipPaths + 1, NumSegments)))
                     /\ calls' = Append(calls, Call("ffmpeg_clip", clipPaths + 2))
                     /\ UNCHANGED pc
                ELSE /\ files' = files \cup
                            ({<<"clip", clipPaths + 1>>} \cup
                             (IF ConcatStrategy(NumSegments, NumSegments,
                                                body.transitionType) = "fast"
                              THEN {<<"concat-list", 0>>} ELSE {}))
                     /\ StartConcat(res, calls)
             /\ UNCHANGED error
    /\ UNCHANGED <<engine, args, value, emptyImages, body, workDirExists, dl, launched, actualAudioDuration,
                   probes, fallbackTried, verifyOut, result, rmFailed>>

\* Step 5 up to its await: the reconcile probe starts.
StartReconcile(stream, log) ==
    /\ res' = Append(stream, Progress(75))
    /\ calls' = Append(log, Call("ffprobe_reconcile", 0))
    /\ pc' = "reconcile_probe"

\* cp of the single clip settled.
CopyDone ==
    /\ pc = "copy"
    /\ \E ok \in BOOLEAN :
        IF ok
        THEN /\ files' = files \cup {<<"final", 0>>}
             /\ StartReconcile(res, calls)
             /\ UNCHANGED error
        ELSE /\ Throw("concat", workDirExists, res, calls)
             /\ UNCHANGED files
    /\ UNCHANGED <<engine, args, value, emptyImages, body, workDirExists, dl, launched, actualAudioDuration,
                   probes, clipPaths, fallbackTried, verifyOut, result,
                   rmFailed>>

\* execFFmpeg of the manifest concatenation (fast path) settled.
ConcatFastDone ==
    /\ pc = "concat_fast"
    /\ \E ok \in BOOLEAN :
        IF ok
        THEN /\ files' = files \cup {<<"final", 0>>}
             /\ StartReconcile(Append(res, Progress(70)), calls)
             /\ UNCHANGED error
        ELSE /\ Throw("concat", workDirExists, res, calls)
             /\ UNCHANGED files
    /\ UNCHANGED <<engine, args, value, emptyImages, body, workDirExists, dl, launched, actualAudioDuration,
                   probes, clipPaths, fallbackTried, verifyOut, result,
                   rmFailed>>

\* TransitionFailed without the fallback: the failure of the transition
\* path is thrown like any other stage error.
TransitionFailedNoRetry ==
    /\ Throw("concat", workDirExists, res, calls)
    /\ UNCHANGED <<files, fallbackTried>>

\* The catch of the transition path: the manifest is written and the fast
\* path is run instead.
TransitionFailed ==
    /\ files' = files \cup {<<"concat-list", 0>>}
    /\ fallbackTried' = fallbackTried + 1
    /\ calls' = Append(calls, Call("ffmpeg_concat", 0))
    /\ pc' = "concat_fallback"
    /\ UNCHANGED <<res, error>>

\* execFFmpeg of the xfade graph (transition path) settled.
ConcatXfadeDone ==
    /\ pc = "concat_xfade"
    /\ \E ok \in BOOLEAN :
        IF ok
        THEN /\ files' = files \cup {<<"final", 0>>}
             /\ StartReconcile(res, calls)
             /\ UNCHANGED <<error, fallbackTried>>
        ELSE TransitionFailed
    /\ UNCHANGED <<engine, args, value, emptyImages, body, workDirExists, dl, launched, actualAudioDuration,
                   probes, clipPaths, verifyOut, result, rmFailed>>

\* execFFmpeg of the fallback concatenation settled.
FallbackDone ==
    /\ pc = "concat_fallback"
    /\ \E ok \in BOOLEAN :
        IF ok
        THEN /\ files' = files \cup {<<"final", 0>>}
             /\ StartReconcile(res, calls)
             /\ UNCHANGED error
        ELSE /\ Throw("concat", workDirExists, res, calls)
             /\ UNCHANGED files
    /\ UNCHANGED <<engine, args, value, emptyImages, body, workDirExists, dl, launched, actualAudioDuration,
                   probes, clipPaths, fallbackTried, verifyOut, result,
                   rmFailed>>

\* Step 6 up to its await: the files are stat-ed and the mux starts with
\* -t actualAudioDuration.toFixed(3).
StartMux(audio, statOk, stream, log) ==
    IF statOk
    THEN /\ res' = Append(stream, Progress(80))
         /\ calls' = Append(log, Call("ffmpeg_mux", MuxArg(audio)))
         /\ pc' = "mux"
         /\ UNCHANGED error
    ELSE Throw("verify_files", workDirExists, stream, log)

\* The reconcile ffprobe answered: an invalid answer throws; a valid one
\* becomes actualAudioDuration and selects extend, trim or no correction.
ReconcileProbe ==
    /\ pc = "reconcile_probe"
    /\ \E o \in ProbeAnswers(audioMeta), statOk \in BOOLEAN :
        /\ reconcileOut' = o
        /\ IF ReconcileProbeInvalid(o)
           THEN /\ Throw("probe", workDirExists, res, calls)
                /\ UNCHANGED actualAudioDuration
           ELSE LET audio == ParseFloat(o).v
                    video == CalculatedVideoDuration(segments)
                    decision == ReconcileDecision(audio, video) IN
                /\ actualAudioDuration' = audio
                /\ IF decision = "extend"
                   THEN /\ calls' = Append(calls,
                               Call("ffmpeg_extend", ExtendArg(audio, video)))
                        /\ pc' = "match"
                        /\ UNCHANGED <<res, error>>
                   ELSE IF decision = "trim"
                   THEN /\ calls' = Append(calls,
                               Call("ffmpeg_trim", TrimArg(audio)))
                        /\ pc' = "match"
                        /\ UNCHANGED <<res, error>>
                   ELSE StartMux(audio, statOk, res, calls)
    /\ UNCHANGED <<engine, args, value, emptyImages, body, workDirExists, files, dl, launched, audioMeta, earlyOut,
                   clipPaths, fallbackTried, verifyOut, result, rmFailed>>

\* execFFmpeg of the extend or of the trim settled.
MatchDone ==
    /\ pc = "match"
    /\ \E ok \in BOOLEAN, statOk \in BOOLEAN :
        IF ok
        THEN /\ files' = files \cup {<<"video-matched", 0>>}
             /\ StartMux(actualAudioDuration, statOk, res, calls)
        ELSE /\ Throw("match", workDirExists, res, calls)
             /\ UNCHANGED files
    /\ UNCHANGED <<engine, args, value, emptyImages, body, workDirExists, dl, launched, actualAudioDuration,
                   probes, clipPaths, fallbackTried, verifyOut, result,
                   rmFailed>>

\* execFFmpeg of the mux settled and the output was stat-ed; then the
\* post-mux ffprobe starts.
MuxDone ==
    /\ pc = "mux"
    /\ \E ok \in BOOLEAN :
        IF ok
        THEN /\ files' = files \cup {<<"video-with-audio", 0>>}
             /\ res' = Append(res, Progress(85))
             /\ calls' = Append(calls, Call("ffprobe_verify", 0))
             /\ pc' = "validate"
             /\ UNCHANGED error
        ELSE /\ Throw("mux", workDirExists, res, calls)
             /\ UNCHANGED files
    /\ UNCHANGED <<engine, args, value, emptyImages, body, workDirExists, dl, launched, actualAudioDuration,
                   probes, clipPaths, fallbackTried, verifyOut, result,
                   rmFailed>>

\* The post-mux ffprobe answered: validation, then the artifact is read.
Validate ==
    /\ pc = "validate"
    /\ \E rep \in VerifyReports(actualAudioDuration) :
        /\ verifyOut' = rep
        /\ IF ValidationPasses(rep, actualAudioDuration)
           THEN /\ res' = Append(res, Progress(90))
                /\ calls' = Append(calls, Call("read_artifact", 0))
                /\ pc' = "read"
                /\ UNCHANGED error
           ELSE Throw("validation", workDirExists, res, calls)
    /\ UNCHANGED <<engine, args, value, emptyImages, body, workDirExists, files, dl, launched,
                   actualAudioDuration, probes, clipPaths, fallbackTried,
                   result, rmFailed>>

\* The value processVideoAsync returns after a successful read.
RenderResult ==
    [defined |-> TRUE, videoUrl |-> TRUE, videoSize |-> 1,
     duration |-> ResultDuration(actualAudioDuration, segments)]

\* readFile settled; a non-empty artifact starts Step 7, cleanup(workDir).
ReadDone ==
    /\ pc = "read"
    /\ \E ok \in BOOLEAN :
        IF ~ok
        THEN /\ Throw("read", workDirExists, res, calls)
             /\ UNCHANGED result
        ELSE IF workDirExists
        THEN /\ calls' = Append(calls, Call("rm", 0))
             /\ pc' = "cleanup_ok"
             /\ UNCHANGED <<res, result, error>>
        ELSE /\ Return(RenderResult, Append(res, Progress(95)))
             /\ UNCHANGED <<calls, error>>
    /\ UNCHANGED <<engine, args, value, emptyImages, body, workDirExists, files, dl, launched,
                   actualAudioDuration, probes, clipPaths, fallbackTried,
                   verifyOut, rmFailed>>

\* rm -rf of cleanup(workDir): a non-zero exit is logged and swallowed.
Remove(ok) ==
    /\ workDirExists' = (workDirExists /\ ~ok)
    /\ files' = IF ok THEN {} ELSE files
    /\ rmFailed' = (rmFailed \/ ~ok)

\* Rethrown that lets a failed rm -rf replace the error.
RethrownCleanupError(e, ok) == IF ok THEN e ELSE "cleanup"

\* The error leaving the catch block once cleanup(workDir) settled with exit
\* status ok: cleanup caught and logged its own failure, `throw error`
\* re-throws the error the block was entered with.
Rethrown(e, ok) == e

\* rm -rf of the success path exited: the result is returned.
CleanupOkDone ==
    /\ pc = "cleanup_ok"
    /\ \E ok \in BOOLEAN : Remove(ok)
    /\ Return(RenderResult, Append(res, Progress(95)))
    /\ UNCHANGED <<engine, args, value, emptyImages, body, dl, launched, calls, actualAudioDuration,
                   probes, clipPaths, fallbackTried, verifyOut, error>>

\* rm -rf of the catch block exited: the original error is re-thrown and the
\* handler writes the failed response.
CleanupErrDone ==
    /\ pc = "cleanup_err"
    /\ \E ok \in BOOLEAN :
        /\ Remove(ok)
        /\ res' = Append(res, ErrorResponse(Rethrown(error, ok)))
    /\ pc' = "ended"
    /\ UNCHANGED <<engine, args, value, emptyImages, body, dl, launched, calls, actualAudioDuration,
                   probes, clipPaths, fallbackTried, verifyOut, result,
                   error>>

Next ==
    \/ Mkdir
    \/ \E i \in 1..NumSegments : DownloadOpen(i)
    \/ \E i \in 1..NumSegments : DownloadFail(i)
    \/ \E i \in 1..NumSegments : DownloadWritten(i)
    \/ \E i \in 1..NumSegments : DownloadDelay(i)
    \/ BatchResolved
    \/ BatchRejected
    \/ DownloadAudio
    \/ EarlyProbe
    \/ ClipDone
    \/ CopyDone
    \/ ConcatFastDone
    \/ ConcatXfadeDone
    \/ FallbackDone
    \/ ReconcileProbe
    \/ MatchDone
    \/ MuxDone
    \/ Validate
    \/ ReadDone
    \/ CleanupOkDone
    \/ CleanupErrDone

Spec == Init /\ [][Next]_vars

\* ------------------------------------- invocations that never answer
\* The awaits on execAsync (ffprobe, cp, rm -rf) and on the audio fetch:
\* promisify(exec) is called without a timeout option and fetch without an
\* abort signal, so nothing settles the promise when the child never exits
\* or the server never answers.  execFFmpeg arms a timer that rejects its
\* promise; a stuck engine run is the failure outcome of its action.
UntimedAwaits ==
    {"audio", "early_probe", "copy", "reconcile_probe", "validate",
     "cleanup_ok", "cleanup_err"}

\* The invocation processVideoAsync is waiting on never answers.
NeverAnswers ==
    /\ pc \in UntimedAwaits
    /\ pc' = "hung"
    /\ UNCHANGED <<engine, args, value, emptyImages, body, workDirExists, files, dl, launched, res,
                   calls, actualAudioDuration, probes, clipPaths,
                   fallbackTried, verifyOut, result, error, rmFailed>>

\* The fetch of the image of segment i never answers.
FetchNeverAnswers(i) ==
    /\ dl[i] = "fetching"
    /\ dl' = [dl EXCEPT ![i] = "hung"]
    /\ UNCHANGED <<engine, args, value, emptyImages, body, pc, workDirExists, files, launched, res,
                   calls, actualAudioDuration, probes, clipPaths,
                   fallbackTried, verifyOut, result, error, rmFailed>>

FairNext ==
    \/ Next
    \/ NeverAnswers
    \/ \E i \in 1..NumSegments : FetchNeverAnswers(i)

\* The event loop runs a continuation once its promise settled, and an
\* invocation that has not hung answers: some enabled step is taken.
FairSpec == Init /\ [][FairNext]_vars /\ WF_vars(FairNext)

\* ------------------------------------------------------ helper functions
\* The specifications below apply one helper of server.ts to arguments
\* drawn from a bounded set, while no request is being served.
jobVars == <<body, pc, workDirExists, files, dl, launched, res, calls,
             actualAudioDuration, probes, clipPaths,
             fallbackTried, verifyOut, result, error, rmFailed, emptyImages>>

NoJob ==
    /\ body = [segKind |-> "missing", segments |-> <<>>, audioUrl |-> FALSE,
               transitionType |-> "none"]
    /\ pc = "ended"
    /\ workDirExists = FALSE
    /\ files = {}
    /\ dl = <<>>
    /\ launched = 0
    /\ res = <<>>
    /\ calls = <<>>
    /\ actualAudioDuration = 0
    /\ audioMeta = NoProbe
    /\ earlyOut = NoProbe
    /\ reconcileOut = NoProbe
    /\ clipPaths = 0
    /\ fallbackTried = 0
    /\ verifyOut = NoVerify
    /\ result = NoResult
    /\ error = ""
    /\ rmFailed = FALSE
    /\ emptyImages = {}
    /\ engine = NoEngine

Returned(fn, v) == [fn |-> fn, v |-> v]

\* ---- Step 4: choice of the concatenation
MaxClips == 12
\* options.transitionType as sent: absent, empty, or a string.
TransitionTypeOptions == {"missing", "", "none", "fade", "crossfade", "wipe"}
\* const transitionType = options?.transitionType || 'crossfade'
TransitionTypeOf(o) == IF o \in {"missing", ""} THEN "crossfade" ELSE o

ConcatArgs ==
    { [fn |-> "concat", n |-> n, transitionType |-> o] :
        n \in 1..MaxClips, o \in TransitionTypeOptions }

\* The if / else-if / else of Step 4, entered with one clip per segment.
SelectConcat ==
    /\ value = NoValue
    /\ value' = Returned("concat",
           ConcatStrategy(args.n, args.n, TransitionTypeOf(args.transitionType)))
    /\ UNCHANGED <<engine, args, jobVars>>

StrategyInit == NoJob /\ args \in ConcatArgs /\ value = NoValue

StrategySpec == StrategyInit /\ [][SelectConcat]_vars

\* ---- buildTransitionFilter: the offsets of the xfade filters
MaxFilterClips == 4
TransitionDurations == {Sec \div 2, 3 * Sec + Sec \div 2}
\* Durations the segments of a request may declare (0: none declared);
\* nothing in the code rejects a negative one.
FilterDurations == {0 - 2 * Sec, 0, 3 * (Sec \div 10), 3 * Sec, 4 * Sec}

\* x || 3 on a duration
OrDefault(d) == IF d = 0 THEN DefaultDuration ELSE d
\* const segmentDurations = segments.map(s => s.duration || 3)
SegmentDurations(ds) == [i \in 1..Len(ds) |-> OrDefault(ds[i])]

RECURSIVE XfadeOffsets(_, _, _, _)
\* The loop `for (let i = 1; i < numClips; i++)` from the clip at 1-based
\* position k on, entered with currentTime.
XfadeOffsets(ds, t, k, currentTime) ==
    IF k > Len(ds) THEN <<>>
    ELSE <<currentTime - t>>
         \o XfadeOffsets(ds, t, k + 1, currentTime + OrDefault(ds[k]))

\* TransitionOffsets that advances by the default duration for every clip.
TransitionOffsetsFromDefault(ds, t) ==
    [i \in 1..(Len(ds) - 1) |-> i * DefaultDuration - t]

\* The offset= values of the xfade filters, in order.
TransitionOffsets(ds, t) == XfadeOffsets(ds, t, 2, OrDefault(ds[1]))

\* The arguments Step 4 passes for 2..MaxFilterClips segments.
FilterArgs ==
    UNION { { [fn |-> "buildTransitionFilter",
               segmentDurations |-> SegmentDurations(ds),
               transitionDuration |-> t] :
                ds \in [1..n -> FilterDurations], t \in TransitionDurations } :
            n \in 2..MaxFilterClips }

BuildTransitionFilter ==
    /\ value = NoValue
    /\ value' = Returned("buildTransitionFilter",
           TransitionOffsets(args.segmentDurations, args.transitionDuration))
    /\ UNCHANGED <<engine, args, jobVars>>

FilterInit == NoJob /\ args \in FilterArgs /\ value = NoValue

FilterSpec == FilterInit /\ [][BuildTransitionFilter]_vars

\* ---- wrapTextSimple / wrapLine
\* A string is the sequence of its characters.
MaxTextLen == 7
MaxWrapChars == 3
SP == " "
NL == "\n"
TextChars == {"a", SP, NL}
Texts == UNION { [1..n -> TextChars] : n \in 0..MaxTextLen }

RECURSIVE SplitOn(_, _)
\* String.prototype.split(c) for a one-character separator.
SplitOn(s, c) ==
    IF \A k \in 1..Len(s) : s[k] # c THEN <<s>>
    ELSE LET k == CHOOSE j \in 1..Len(s) :
                      s[j] = c /\ \A i \in 1..(j - 1) : s[i] # c
         IN  <<SubSeq(s, 1, k - 1)>> \o SplitOn(SubSeq(s, k + 1, Len(s)), c)

RECURSIVE JoinWith(_, _)
\* Array.prototype.join(c)
JoinWith(parts, c) ==
    IF parts = <<>> THEN <<>>
    ELSE IF Len(parts) = 1 THEN parts[1]
    ELSE parts[1] \o <<c>> \o JoinWith(Tail(parts), c)

RECURSIVE WrapLoopNoSpace(_, _, _, _)
\* WrapLoop that leaves the joining space out of the length test.
WrapLoopNoSpace(words, lines, currentLine, maxChars) ==
    IF words = <<>>
    THEN (IF currentLine # <<>> THEN Append(lines, currentLine) ELSE lines)
    ELSE LET word == Head(words) IN
         IF currentLine # <<>> /\ Len(currentLine \o word) > maxChars
         THEN WrapLoopNoSpace(Tail(words), Append(lines, currentLine), word, maxChars)
         ELSE WrapLoopNoSpace(Tail(words), lines,
                  IF currentLine # <<>> THEN currentLine \o <<SP>> \o word ELSE word,
                  maxChars)

RECURSIVE WrapLoop(_, _, _, _)
\* `for (const word of words)` of wrapLine over the remaining words, then
\* the push of the last line.
WrapLoop(words, lines, currentLine, maxChars) ==
    IF words = <<>>
    THEN (IF currentLine # <<>> THEN Append(lines, currentLine) ELSE lines)
    ELSE LET word == Head(words) IN
         IF currentLine # <<>> /\ Len(currentLine \o <<SP>> \o word) > maxChars
         THEN WrapLoop(Tail(words), Append(lines, currentLine), word, maxChars)
         ELSE WrapLoop(Tail(words), lines,
                  IF currentLine # <<>> THEN currentLine \o <<SP>> \o word ELSE word,
                  maxChars)

wrapLine(text, maxChars) ==
    IF Len(text) <= maxChars THEN text
    ELSE JoinWith(WrapLoop(SplitOn(text, SP), <<>>, <<>>, maxChars), NL)

\* wrapTextSimple without the split at the newlines already present.
wrapTextSimpleWhole(text, maxCharsPerLine) == wrapLine(text, maxCharsPerLine)

wrapTextSimple(text, maxCharsPerLine) ==
    IF \E k \in 1..Len(text) : text[k] = NL
    THEN LET parts == SplitOn(text, NL) IN
         JoinWith([k \in 1..Len(parts) |-> wrapLine(parts[k], maxCharsPerLine)], NL)
    ELSE wrapLine(text, maxCharsPerLine)

WrapArgs ==
    { [fn |-> "wrapTextSimple", text |-> t, maxCharsPerLine |-> m] :
        t \in Texts, m \in 0..MaxWrapChars }

WrapTextSimple ==
    /\ value = NoValue
    /\ value' = Returned("wrapTextSimple",
                     wrapTextSimple(args.text, args.maxCharsPerLine))
    /\ UNCHANGED <<engine, args, jobVars>>

WrapInit == NoJob /\ args \in WrapArgs /\ value = NoValue

WrapSpec == WrapInit /\ [][WrapTextSimple]_vars

\* ---- escaping of the overlay text for the drawtext filter
MaxEscapeLen == 3
BS == "\\"
EscapeChars == {"a", "n", BS, ":", "'", ",", "=", "(", NL}
EscapeTexts == UNION { [1..n -> EscapeChars] : n \in 0..MaxEscapeLen }

RECURSIVE ReplaceAll(_, _, _)
\* s.replace(/c/g, rep) for a one-character pattern c.
ReplaceAll(s, c, rep) ==
    IF s = <<>> THEN <<>>
    ELSE (IF Head(s) = c THEN rep ELSE <<Head(s)>>) \o ReplaceAll(Tail(s), c, rep)

\* A backslash put before the character c.
Escaped(c) == <<BS, c>>

\* const escapedText = wrappedText.replace(/\\/g, '\\\\')...replace(/\n/g, '\\n')
EscapedText(wrappedText) ==
    LET r1 == ReplaceAll(wrappedText, BS, Escaped(BS))
        r2 == ReplaceAll(r1, ":", Escaped(":"))
        r3 == ReplaceAll(r2, "'", Escaped("'"))
        r4 == ReplaceAll(r3, "\"", Escaped("\""))
        r5 == ReplaceAll(r4, "(", Escaped("("))
        r6 == ReplaceAll(r5, ")", Escaped(")"))
        r7 == ReplaceAll(r6, "[", Escaped("["))
        r8 == ReplaceAll(r7, "]", Escaped("]"))
        r9 == ReplaceAll(r8, "{", Escaped("{"))
        r10 == ReplaceAll(r9, "}", Escaped("}"))
    IN  ReplaceAll(r10, NL, Escaped("n"))

\* The helper of the filter library: backslash, colon, equals, single quote
\* (closed, escaped, reopened: '\''), comma.
escapeTextForFFmpeg(text) ==
    LET r1 == ReplaceAll(text, BS, Escaped(BS))
        r2 == ReplaceAll(r1, ":", Escaped(":"))
        r3 == ReplaceAll(r2, "=", Escaped("="))
        r4 == ReplaceAll(r3, "'", <<"'", BS, "'", "'">>)
    IN  ReplaceAll(r4, ",", Escaped(","))

EscapeArgs == { [fn |-> "escape", text |-> t] : t \in EscapeTexts }

EscapeInit == NoJob /\ args \in EscapeArgs /\ value = NoValue

\* Step 3 escapes the wrapped overlay text of a segment.
EscapeOverlayText ==
    /\ value = NoValue
    /\ value' = Returned("escapedText", EscapedText(args.text))
    /\ UNCHANGED <<engine, args, jobVars>>

\* generateBoldTextFilter escapes its text with the helper.
EscapeTextForFFmpeg ==
    /\ value = NoValue
    /\ value' = Returned("escapeTextForFFmpeg", escapeTextForFFmpeg(args.text))
    /\ UNCHANGED <<engine, args, jobVars>>

EscapeNext == EscapeOverlayText \/ EscapeTextForFFmpeg

EscapeSpec == EscapeInit /\ [][EscapeNext]_vars

\* ---- the numeric options and their defaults
MaxMultiple == 4
DefaultTransitionDuration == Sec \div 2
DefaultWidth == 1080
DefaultHeight == 1920
DefaultFps == 30
NumericOptions == {"transitionDuration", "width", "height", "fps"}
DefaultOf(opt) ==
    CASE opt = "transitionDuration" -> DefaultTransitionDuration
      [] opt = "width" -> DefaultWidth
      [] opt = "height" -> DefaultHeight
      [] opt = "fps" -> DefaultFps

\* A JSON value of req.body.options: absent, null, a number, or a string
\* (the empty one, one that is no number's text, and the default's text).
Number(n) == [kind |-> "number", n |-> n, empty |-> FALSE]
OptionValues(opt) ==
    {[kind |-> "missing", n |-> 0, empty |-> FALSE],
     [kind |-> "null", n |-> 0, empty |-> FALSE],
     [kind |-> "string", n |-> 0, empty |-> TRUE],
     [kind |-> "string", n |-> 0, empty |-> FALSE],
     [kind |-> "string", n |-> DefaultOf(opt), empty |-> FALSE]}
    \cup { Number(k * (DefaultOf(opt) \div 2)) : k \in (0 - MaxMultiple)..MaxMultiple }

\* ToBoolean(v) is false: undefined, null, 0, the empty string.
Falsy(v) ==
    \/ v.kind \in {"missing", "null"}
    \/ v.kind = "number" /\ v.n = 0
    \/ v.kind = "string" /\ v.empty

\* options?.<opt> || <default>
OrElse(v, dflt) == IF Falsy(v) THEN Number(dflt) ELSE v

OptionArgs ==
    UNION { { [fn |-> "option", opt |-> opt, given |-> v] : v \in OptionValues(opt) } :
            opt \in NumericOptions }

OptionInit == NoJob /\ args \in OptionArgs /\ value = NoValue

\* The const declarations of transitionDuration, width, height and fps.
ReadOption ==
    /\ value = NoValue
    /\ value' = Returned("option", OrElse(args.given, DefaultOf(args.opt)))
    /\ UNCHANGED <<engine, args, jobVars>>

OptionSpec == OptionInit /\ [][ReadOption]_vars

\* ---- execFFmpeg: one child process, its timer, and the promise returned
\* resolve(...) / reject(...) of a promise that is already settled does nothing.
SettleLast(promise, outcome) == outcome

Settle(promise, outcome) == IF promise = "pending" THEN outcome ELSE promise

\* clearTimeout(timeout): a timer that has not run yet never runs.
ClearTimeout(timer) == IF timer = "armed" THEN "cleared" ELSE timer

ExecInit == NoJob /\ args = [fn |-> "execFFmpeg"] /\ value = NoValue

\* const ffmpeg = spawn('ffmpeg', args); const timeout = setTimeout(...).
\* The first invocation is the transition run; the second one is made by
\* the catch block around it, once the promise of the first has rejected.
\* spawn either starts the child or fails, which the 'error' event reports.
Spawn(k) ==
    /\ engine[k].child = "none"
    /\ k > 1 => engine[k - 1].promise = "rejected"
    /\ \E started \in BOOLEAN :
         engine' = [engine EXCEPT ![k] =
                      [@ EXCEPT !.child = IF started THEN "running" ELSE "exited",
                                !.exit = IF started THEN "none" ELSE "spawnError",
                                !.errorPending = ~started,
                                !.timer = "armed",
                                !.promise = "pending"]]
    /\ UNCHANGED <<args, value, jobVars>>

\* The child process ends: with exit code 0, with another exit code, or by
\* a signal (the SIGTERM of the timer callback, or one from elsewhere).
ChildExits(k) ==
    /\ engine[k].child = "running"
    /\ \E how \in {"code0", "nonzero", "signal"} :
         engine' = [engine EXCEPT ![k] = [@ EXCEPT !.child = "exited", !.exit = how]]
    /\ UNCHANGED <<args, value, jobVars>>

\* ffmpeg.on('close', (code, signal) => { clearTimeout(timeout);
\*     if (code === 0) resolve() else reject(...) })
OnClose(k) ==
    /\ engine[k].child = "exited"
    /\ "close" \notin {engine[k].handled[j] : j \in 1..Len(engine[k].handled)}
    /\ engine' = [engine EXCEPT ![k] =
                    [@ EXCEPT !.timer = ClearTimeout(@),
                              !.promise = Settle(@, IF engine[k].exit = "code0"
                                                    THEN "resolved" ELSE "rejected"),
                              !.handled = Append(@, "close")]]
    /\ UNCHANGED <<args, value, jobVars>>

\* ffmpeg.on('error', (error) => { clearTimeout(timeout); reject(...) })
OnError(k) ==
    /\ engine[k].errorPending
    /\ engine' = [engine EXCEPT ![k] =
                    [@ EXCEPT !.errorPending = FALSE,
                              !.timer = ClearTimeout(@),
                              !.promise = Settle(@, "rejected"),
                              !.handled = Append(@, "error")]]
    /\ UNCHANGED <<args, value, jobVars>>

\* setTimeout(() => { ffmpeg.kill('SIGTERM'); reject(...) }, timeoutMs):
\* the signal is sent and the promise rejected in the same callback; the
\* child ends when it acts on the signal (ChildExits), if it does.
OnTimeout(k) ==
    /\ engine[k].timer = "armed"
    /\ engine' = [engine EXCEPT ![k] =
                    [@ EXCEPT !.timer = "fired",
                              !.signalled = (engine[k].child = "running"),
                              !.promise = Settle(@, "rejected"),
                              !.handled = Append(@, "timeout")]]
    /\ UNCHANGED <<args, value, jobVars>>

ExecNext ==
    \E k \in Invocations :
        Spawn(k) \/ ChildExits(k) \/ OnClose(k) \/ OnError(k) \/ OnTimeout(k)

ExecSpec == ExecInit /\ [][ExecNext]_vars

\* ---- frame size of the concatenated video
\* options.width / options.height as sent (0: absent), a clip count for each
\* branch of Step 4, and the transition type.
FrameArgs ==
    { [fn |-> "frame", n |-> n, transitionType |-> tt, width |-> w, height |-> h] :
        n \in {1, 2, MaxTransitionClips + 1}, tt \in TransitionTypes,
        w \in {0, 720, DefaultWidth, 1440}, h \in {0, 1280, DefaultHeight, 2560} }

\* zoompan=...:s=${width}x${height} with width = options?.width || 1080 and
\* height = options?.height || 1920: the frame every clip is encoded at.
ClipFrame(w, h) ==
    [w |-> IF w = 0 THEN DefaultWidth ELSE w,
     h |-> IF h = 0 THEN DefaultHeight ELSE h]

\* The frame of final.mp4: cp and the concat demuxer with -c copy keep the
\* clips' frame; the transition graph scales and pads every input with
\* scale=1080:1920...,pad=1080:1920 before the xfade chain.
ConcatFrame(path, clipFrame) ==
    IF path = "transition" THEN [w |-> 1080, h |-> 1920] ELSE clipFrame

FrameInit == NoJob /\ args \in FrameArgs /\ value = NoValue

\* Step 4 writes final.mp4 by the branch ConcatStrategy selects; a failed
\* transition run is followed by the fallback concatenation.
ConcatenateFrames ==
    /\ value = NoValue
    /\ \E xfadeOk \in BOOLEAN :
         LET strategy == ConcatStrategy(args.n, args.n, args.transitionType)
             path == IF strategy = "transition" /\ ~xfadeOk THEN "fallback"
                     ELSE strategy
         IN  value' = Returned("frame",
                 [path |-> path,
                  size |-> ConcatFrame(path, ClipFrame(args.width, args.height))])
    /\ UNCHANGED <<engine, args, jobVars>>

FrameSpec == FrameInit /\ [][ConcatenateFrames]_vars

\* ---- pad labels of a compiled filter graph
\* A label is the sequence of the pieces it is concatenated from.
MaxChain == 3
Digits == <<"0", "1", "2", "3", "4", "5", "6", "7", "8", "9">>
\* The labels a caller hands to the k-th filter of a chain: pairwise distinct.
GivenLabels == <<<<"in">>, <<"a">>, <<"b">>, <<"c">>, <<"d">>>>
FilterKinds == {"text", "text-faded", "pulse-dot", "pulse-circle",
                "corner-marks", "bracket"}

\* buildTransitionFilter: [v0]..[v(n-1)] from the scale stages, then the
\* xfade outputs [v1out]..[v(n-2)out] and [v] for the last one.
TransitionPads(n) ==
    [i \in 1..n |-> <<"v", Digits[i]>>]
    \o [i \in 1..(n - 1) |-> IF i = n - 1 THEN <<"v">>
                             ELSE <<"v", Digits[i + 1], "out">>]

\* The output pads of one overlay or highlight filter, in order:
\* generateBoldTextFilter (four `${outputLabel}_fade${i}` layers before the
\* output when fadedBottom), the pulse filters (one drawbox), and
\* generateCornerMarksFilter (seven literal labels, then the output), which
\* getHighlightFilter also runs for 'bracket'.
FilterPads(kind, outputLabel) ==
    CASE kind = "text" -> <<outputLabel>>
      [] kind = "text-faded" ->
            [i \in 1..4 |-> outputLabel \o <<"_fade", Digits[i]>>] \o <<outputLabel>>
      [] kind \in {"pulse-dot", "pulse-circle"} -> <<outputLabel>>
      [] kind \in {"corner-marks", "bracket"} ->
            << <<"corner_tl_h">>, <<"corner_tl">>, <<"corner_tr_h">>,
               <<"corner_tr">>, <<"corner_bl_h">>, <<"corner_bl">>,
               <<"corner_br_h">>, outputLabel >>

RECURSIVE ChainPads(_, _)
\* Filters of the given kinds joined into one graph, the k-th one reading
\* the output label of the one before it.
ChainPads(kinds, k) ==
    IF k > Len(kinds) THEN <<>>
    ELSE FilterPads(kinds[k], GivenLabels[k + 1]) \o ChainPads(kinds, k + 1)

GraphArgs ==
    { [fn |-> "buildTransitionFilter", n |-> n] : n \in 2..MaxTransitionClips }
    \cup UNION { { [fn |-> "chain", kinds |-> ks] : ks \in [1..n -> FilterKinds] } :
                 n \in 1..MaxChain }

GraphInit == NoJob /\ args \in GraphArgs /\ value = NoValue

BuildTransitionGraph ==
    /\ value = NoValue
    /\ args.fn = "buildTransitionFilter"
    /\ value' = Returned("graph", [pads |-> TransitionPads(args.n), out |-> <<"v">>])
    /\ UNCHANGED <<engine, args, jobVars>>

ComposeOverlays ==
    /\ value = NoValue
    /\ args.fn = "chain"
    /\ value' = Returned("graph", [pads |-> ChainPads(args.kinds, 1),
                                   out |-> GivenLabels[Len(args.kinds) + 1]])
    /\ UNCHANGED <<engine, args, jobVars>>

GraphNext == BuildTransitionGraph \/ ComposeOverlays

GraphSpec == GraphInit /\ [][GraphNext]_vars

\* ---- visible window of the overlay text
\* A field of segment.textTiming: absent (undefined / null) or a number.
Absent == [given |-> FALSE, n |-> 0]
Given(n) == [given |-> TRUE, n |-> n]
\* segment.textTiming as sent: absent, or {start, duration} with either
\* field absent or a number of microseconds.
TextTimings ==
    {[present |-> FALSE, start |-> Absent, duration |-> Absent]}
    \cup { [present |-> TRUE, start |-> s, duration |-> d] :
             s \in {Absent} \cup {Given(n) : n \in {0 - Sec, 0, Sec, 5 * Sec}},
             d \in {Absent} \cup {Given(n) : n \in {0 - Sec, 0, 2 * Sec, 10 * Sec}} }

\* x ?? dflt
Coalesce(x, dflt) == IF x.given THEN x.n ELSE dflt

\* const textStart = segment.textTiming?.start ?? 0
\* const textDuration = segment.textTiming?.duration ?? duration
\* const textEnd = Math.min(textStart + textDuration, duration)
TextWindow(duration, timing) ==
    LET textStart == Coalesce(timing.start, 0)
        textDuration == Coalesce(timing.duration, duration)
    IN  [textStart |-> textStart,
         textEnd |-> Min(textStart + textDuration, duration)]

WindowArgs ==
    { [fn |-> "textWindow", duration |-> d, textTiming |-> tt] :
        d \in {3 * (Sec \div 10), 3 * Sec, 4 * Sec}, tt \in TextTimings }

WindowInit == NoJob /\ args \in WindowArgs /\ value = NoValue

\* Step 3 computes enable='between(t,${textStart},${textEnd})'.
ComputeTextWindow ==
    /\ value = NoValue
    /\ value' = Returned("textWindow", TextWindow(args.duration, args.textTiming))
    /\ UNCHANGED <<engine, args, jobVars>>

WindowSpec == WindowInit /\ [][ComputeTextWindow]_vars

\* ---- buildAlphaExpression
\* Times in microseconds, one of them off the millisecond grid.
AlphaTimes == {0, Sec, Sec + 400, 2 * Sec}

\* The expression returned, by the numbers printed into it:
\* if(lt(t,fadeInStart),0,if(lt(t,fadeInEnd),(t-fadeInStart)/fadeInDur,
\* if(lt(t,fadeOutStart),1,if(lt(t,fadeOutEnd),1-(t-fadeOutStart)/fadeOutDur,0))))
\* each number printed with toFixed(3).
buildAlphaExpression(fadeInStart, fadeInEnd, fadeOutStart, fadeOutEnd) ==
    LET fadeInDur == fadeInEnd - fadeInStart
        fadeOutDur == fadeOutEnd - fadeOutStart
    IN  [fadeInStart |-> ToFixed3(fadeInStart), fadeInEnd |-> ToFixed3(fadeInEnd),
         fadeInDur |-> ToFixed3(fadeInDur),
         fadeOutStart |-> ToFixed3(fadeOutStart), fadeOutEnd |-> ToFixed3(fadeOutEnd),
         fadeOutDur |-> ToFixed3(fadeOutDur)]

AlphaArgs ==
    { [fn |-> "buildAlphaExpression", fadeInStart |-> a, fadeInEnd |-> b,
       fadeOutStart |-> c, fadeOutEnd |-> d] :
        a \in AlphaTimes, b \in AlphaTimes, c \in AlphaTimes, d \in AlphaTimes }

AlphaInit == NoJob /\ args \in AlphaArgs /\ value = NoValue

BuildAlphaExpression ==
    /\ value = NoValue
    /\ value' = Returned("buildAlphaExpression",
           buildAlphaExpression(args.fadeInStart, args.fadeInEnd,
                                args.fadeOutStart, args.fadeOutEnd))
    /\ UNCHANGED <<engine, args, jobVars>>

AlphaSpec == AlphaInit /\ [][BuildAlphaExpression]_vars

\* ---- period of the pulse filters
MaxPulseCount == 3

\* const pulsePeriod = pulsesDuration / pulseCount, then
\* pulsePeriod.toFixed(3): what is printed after `/` in the sin() argument.
\* A division by 0 gives Infinity or NaN, printed as such.
PulsePeriod(pulsesDuration, pulseCount) ==
    IF pulseCount = 0
    THEN [kind |-> IF pulsesDuration = 0 THEN "NaN" ELSE "Infinity", us |-> 0]
    ELSE [kind |-> "number",
          us |-> (IF pulseCount < 0 THEN 0 - 1 ELSE 1)
                 * Round(pulsesDuration, Abs(pulseCount) * 1000) * 1000]

\* The highlight types of getHighlightFilter with a HighlightConfig.
PulseArgs ==
    { [fn |-> type, pulsesDuration |-> d, pulseCount |-> c] :
        type \in {"pulse-dot", "pulse-circle", "corner-marks", "bracket"},
        d \in {0, Sec, 2 * Sec, 3 * Sec},
        c \in (0 - 2)..MaxPulseCount }

PulseInit == NoJob /\ args \in PulseArgs /\ value = NoValue

\* generatePulseDotFilter, generatePulseCircleFilter and
\* generateCornerMarksFilter compute the period in the same way.
EmitPulseFilter ==
    /\ value = NoValue
    /\ value' = Returned(args.fn, PulsePeriod(args.pulsesDuration, args.pulseCount))
    /\ UNCHANGED <<engine, args, jobVars>>

PulseSpec == PulseInit /\ [][EmitPulseFilter]_vars

\* ------------------------------------------------------------ type check
TypeOK ==
    /\ pc \in {"mkdir", "await_batch", "audio", "early_probe", "clip", "copy",
               "concat_fast", "concat_xfade", "concat_fallback",
               "reconcile_probe", "match", "mux", "validate", "read",
               "cleanup_ok", "cleanup_err", "ended", "hung"}
    /\ workDirExists \in BOOLEAN
    /\ \A i \in 1..NumSegments :
          dl[i] \in {"idle", "fetching", "writing", "delay", "done", "failed",
                     "hung"}
    /\ launched \in 0..NumSegments
    /\ clipPaths \in 0..NumSegments
    /\ emptyImages \subseteq 1..NumSegments

\* ================================================================ claims
HasCall(c) == \E k \in 1..Len(calls) : calls[k].cmd = c
CountCalls(log, c) == Cardinality({k \in 1..Len(log) : log[k].cmd = c})
CallArgs(c) == { calls[k].arg : k \in {j \in 1..Len(calls) : calls[j].cmd = c} }
IsTerminal(ch) == ch.t \in {"completed", "failed"}
Completed == \E k \in 1..Len(res) : res[k].t = "completed"
RejectedInput ==
    \/ body.segKind # "array"
    \/ Len(body.segments) = 0
    \/ ~body.audioUrl
\* The claims' reading of the reconcile probe's answer.
ProbeUnusable(o) == o.kind \in {"fail", "na"} \/ (o.kind = "num" /\ o.us <= 0)
ProbeUsable(o) == o.kind = "num" /\ o.us > 0
\* x is t rounded to the millisecond.
RoundedToMs(x, t) == x % 1000 = 0 /\ Abs(x - t) <= 500

\* C1: at every terminal outcome of processVideoAsync (the handler has
\* written the terminal response), if no rm -rf failed, the working
\* directory and its intermediate files no longer exist.
C1_WorkDirGoneAtEveryOutcome ==
    (pc = "ended" /\ ~rmFailed) => (~workDirExists /\ files = {})

\* C2: a failed transition-path invocation is retried exactly once with the
\* fast path instead of failing the job; the job goes on to the reconcile
\* stage iff the retry succeeds; a fast-path failure, direct or as fallback,
\* fails the job with no further retry.
C2_FallbackSteps ==
    /\ (pc = "concat_xfade" /\ pc' # pc) =>
          \/ pc' = "reconcile_probe" /\ fallbackTried' = fallbackTried
          \/ /\ pc' = "concat_fallback"
             /\ fallbackTried' = fallbackTried + 1
             /\ calls' = Append(calls, Call("ffmpeg_concat", 0))
             /\ error' = ""
    /\ (pc \in {"concat_fallback", "concat_fast"} /\ pc' # pc) =>
          \/ pc' = "reconcile_probe" /\ <<"final", 0>> \in files'
          \/ /\ pc' \in {"cleanup_err", "ended"}
             /\ error' = "concat"
             /\ CountCalls(calls', "ffmpeg_concat") = 1
             /\ ~(\E k \in 1..Len(calls') : calls'[k].cmd = "ffprobe_reconcile")
C2_FallbackOnce ==
    /\ [](/\ fallbackTried <= 1
          /\ CountCalls(calls, "ffmpeg_concat") <= 1
          /\ CountCalls(calls, "ffmpeg_xfade") <= 1
          /\ (fallbackTried = 1 => HasCall("ffmpeg_xfade")))
    /\ [][C2_FallbackSteps]_vars
C2_Witness ==
    /\ fallbackTried = 1
    /\ HasCall("ffprobe_reconcile")
    /\ Completed

\* C3: the completed response is written only if the post-mux probe
\* reported an audio stream and a duration within 0.5 s of the target.
C3_CompletedOnlyIfValidated ==
    Completed =>
        /\ verifyOut.ran /\ verifyOut.ok
        /\ verifyOut.hasAudio
        /\ verifyOut.duration >= 0
        /\ Abs(verifyOut.duration - actualAudioDuration) <= ValidationTolerance

\* C4: a reconcile probe that fails or answers a non-number, zero or a
\* negative duration fails the job: no extend, trim or mux is invoked, no
\* result is returned and actualAudioDuration is not replaced; a usable
\* answer becomes actualAudioDuration.
C4_ReconcileProbeFatal ==
    /\ ProbeUnusable(reconcileOut) =>
          /\ error = "probe"
          /\ pc \in {"cleanup_err", "ended"}
          /\ ~HasCall("ffmpeg_extend") /\ ~HasCall("ffmpeg_trim")
          /\ ~HasCall("ffmpeg_mux")
          /\ ~result.defined /\ ~Completed
          /\ actualAudioDuration = EarlyAudioDuration(earlyOut, segments)
    /\ ProbeUsable(reconcileOut) => actualAudioDuration = reconcileOut.us
C4_Witness ==
    /\ earlyOut = ProbeNA
    /\ reconcileOut = ProbeNA
    /\ pc = "ended"
    /\ res[Len(res)].t = "failed"

\* C5 as stated: the mux duration and the duration of a returned result
\* both equal the duration probed at the reconcile stage.
C5_MuxAndResultEqualProbed ==
    /\ \A a \in CallArgs("ffmpeg_mux") : a = reconcileOut.us
    /\ result.defined => result.duration = reconcileOut.us

\* C5 amended: the mux duration is the duration probed at the reconcile
\* stage rounded to the millisecond, and the duration of a returned result
\* equals the probed duration; both come from a usable reconcile probe.
C5_MuxRoundedResultExact ==
    /\ \A a \in CallArgs("ffmpeg_mux") :
          ProbeUsable(reconcileOut) /\ RoundedToMs(a, reconcileOut.us)
    /\ result.defined =>
          ProbeUsable(reconcileOut) /\ result.duration = reconcileOut.us
C5_Witness ==
    /\ result.defined
    /\ earlyOut = ProbeFail
    /\ reconcileOut = ProbeNum(12345600)
    /\ EstimatedDuration(segments) # 12345600
    /\ CallArgs("ffmpeg_mux") = {12346000}
\* The reconcile decision has been taken: the probe answered a usable
\* duration.  diff = audioDuration - calculatedVideoDuration.
ReconcileDiff == reconcileOut.us - CalculatedVideoDuration(segments)

C6_WitnessTrim ==
    /\ reconcileOut = ProbeNum(9 * Sec)
    /\ CalculatedVideoDuration(segments) = 10 * Sec
    /\ CallArgs("ffmpeg_trim") = {9 * Sec}
    /\ Completed

\* C7: the response carries at most one terminal chunk and no progress
\* update is written after it.
C7_ProgressBeforeTerminal ==
    /\ Cardinality({k \in 1..Len(res) : IsTerminal(res[k])}) <= 1
    /\ \A j, k \in 1..Len(res) :
          (j < k /\ IsTerminal(res[j])) => res[k].t # "progress"

\* C8: the progress percentages delivered to the callback are
\* non-decreasing.
C8_ProgressMonotone ==
    \A j, k \in 1..Len(res) :
        (j < k /\ res[j].t = "progress" /\ res[k].t = "progress")
            => res[j].p <= res[k].p

\* C9: a request with missing, non-array or empty segments, or without
\* audioUrl, ends failed with an error message, and no download, probe or
\* engine invocation is made.
C9_RejectedInputFails ==
    (RejectedInput /\ pc = "ended") =>
        /\ res[Len(res)].t = "failed"
        /\ res[Len(res)].error # ""
        /\ calls = <<>>

\* C10: every completed response carries the artifact, its size and its
\* duration.
C10_CompletedCarriesArtifact ==
    \A k \in 1..Len(res) :
        res[k].t = "completed" =>
            res[k].videoUrl /\ res[k].videoSize > 0 /\ res[k].duration > 0

\* The stage errors processVideoAsync can throw.
StageErrors == {"mkdir", "image", "audio", "clip", "concat", "probe",
                "verify_files", "match", "mux", "validation", "read"}

\* C11: the error of a failed response is the stage error the catch block
\* was entered with, also when the rm -rf of cleanup failed; a failed rm -rf
\* on the success path throws nothing, the job completes.
C11_OriginalErrorSurvivesCleanup ==
    /\ \A k \in 1..Len(res) :
          res[k].t = "failed" => (res[k].error = error /\ error \in StageErrors)
    /\ (pc = "ended" /\ rmFailed /\ error = "") => Completed
    /\ (pc = "ended" /\ error # "") =>
          (~Completed /\ \E k \in 1..Len(res) : res[k] = ErrorResponse(error))
\* A clip failed, the rm -rf of the catch block failed too.
C11_Witness ==
    /\ pc = "ended" /\ rmFailed /\ workDirExists
    /\ error = "clip"
    /\ res[Len(res)] = ErrorResponse("clip")
    /\ HasCall("rm")
\* The rm -rf of the success path failed and the job completed.
C11_WitnessSuccessPath ==
    /\ pc = "ended" /\ rmFailed /\ Completed

\* C12: once the retrieval of an image has failed (missing imageUrl, network
\* error or non-2xx response), no later download batch is started, the audio
\* is not fetched, no clip is synthesized, no result is returned, and a job
\* that ended has written the failed response with the image error.
ImageFailed == \E i \in 1..NumSegments : dl[i] = "failed"
C12_NothingAfterFailure ==
    ImageFailed =>
        /\ \E i \in CurrentBatch : dl[i] = "failed"
        /\ \A j \in (launched + 1)..NumSegments : dl[j] = "idle"
        /\ pc \in {"await_batch", "cleanup_err", "ended"}
        /\ ~HasCall("fetch_audio") /\ ~HasCall("ffmpeg_clip")
        /\ <<"audio", 0>> \notin files
        /\ ~result.defined /\ ~Completed
        /\ pc = "ended" =>
              (error = "image" /\ \E k \in 1..Len(res) : res[k] = ErrorResponse("image"))
C12_NoBatchAfterFailure ==
    ImageFailed => (launched' = launched /\ CountCalls(calls', "fetch_image")
                                             = CountCalls(calls, "fetch_image"))
C12_ImageFailureFailsJob ==
    []C12_NothingAfterFailure /\ [][C12_NoBatchAfterFailure]_vars
\* Four segments with their imageUrl: a fetch of the first batch failed, the
\* job ended failed and the fourth download was never started.
C12_Witness ==
    /\ NumSegments = 4
    /\ \A i \in 1..4 : segments[i].imageUrl
    /\ ImageFailed /\ launched = 3 /\ dl[4] = "idle"
    /\ pc = "ended" /\ error = "image"
\* The last of four segments has no imageUrl: the second batch rejects.
C12_WitnessMissingUrl ==
    /\ NumSegments = 4 /\ ~segments[4].imageUrl
    /\ dl[4] = "failed" /\ dl[1] = "done"
    /\ pc = "ended" /\ error = "image"

\* C13: one segment is concatenated by a plain copy, with no transition
\* graph; several segments take the fast path when transitionType is "none"
\* or there are more than 10 clips, and the transition path when there are
\* 2..10 clips and transitionType is not "none".
C13_StrategySelection ==
    value # NoValue =>
        /\ args.n = 1 => value.v = "copy"
        /\ (args.n > 1 /\ (args.transitionType = "none" \/ args.n > 10))
              => value.v = "fast"
        /\ (args.n \in 2..10 /\ args.transitionType # "none")
              => value.v = "transition"
\* Ten clips with a fade take the transition path.
C13_Witness ==
    /\ args \in ConcatArgs /\ args.n = 10 /\ args.transitionType = "fade"
    /\ value = Returned("concat", "transition")
\* Eleven clips with a fade take the fast path.
C13_WitnessOverThreshold ==
    /\ args \in ConcatArgs /\ args.n = 11 /\ args.transitionType = "fade"
    /\ value = Returned("concat", "fast")

RECURSIVE SumFirst(_, _)
\* d[1] + ... + d[k]
SumFirst(d, k) == IF k = 0 THEN 0 ELSE SumFirst(d, k - 1) + d[k]

\* C14: buildTransitionFilter emits one offset per transition; the offset of
\* transition i is the sum of the durations of the clips before it minus the
\* transition duration; the offsets are strictly increasing when every
\* duration exceeds the transition duration; durations [3, 4, 3] with
\* t = 0.5 give the offsets [2.5, 6.5].
C14_Offsets ==
    value # NoValue =>
        LET d == args.segmentDurations
            t == args.transitionDuration
            offset == value.v
        IN  /\ Len(offset) = Len(d) - 1
            /\ \A i \in 1..(Len(d) - 1) : offset[i] = SumFirst(d, i) - t
            /\ (\A i \in 1..Len(d) : d[i] > t) =>
                  \A i \in 1..(Len(offset) - 1) : offset[i] < offset[i + 1]
            /\ (d = <<3 * Sec, 4 * Sec, 3 * Sec>> /\ 2 * t = Sec) =>
                  offset = <<2 * Sec + t, 6 * Sec + t>>
C14_Witness ==
    /\ args \in FilterArgs
    /\ args.segmentDurations = <<3 * Sec, 4 * Sec, 3 * Sec>>
    /\ args.transitionDuration = Sec \div 2
    /\ value = Returned("buildTransitionFilter", <<2500000, 6500000>>)

\* The probe failed, or printed a non-number or 0.
ProbeFailedNaNOrZero(o) == o \in {ProbeFail, ProbeNA, ProbeNum(0)}

\* C15: an early probe that fails or answers NaN or 0 throws nothing: the
\* first clip is started and, until the reconcile probe answers usably,
\* actualAudioDuration is the estimate (sum of the durations, 3 s for a
\* missing one); the same answer at the reconcile stage fails the job.
C15_EarlyProbeNotFatal ==
    /\ ProbeFailedNaNOrZero(earlyOut) =>
          /\ HasCall("ffmpeg_clip")
          /\ error # "audio"
          /\ ~ProbeUsable(reconcileOut) =>
                actualAudioDuration = EstimatedDuration(segments)
    /\ ProbeFailedNaNOrZero(reconcileOut) =>
          /\ pc \in {"cleanup_err", "ended"}
          /\ error = "probe"
          /\ ~HasCall("ffmpeg_mux") /\ ~Completed
\* ffprobe prints 0 for the file: the early probe is survived, all clips and
\* the concatenation are made, and the reconcile probe fails the job.
C15_Witness ==
    /\ earlyOut = ProbeNum(0) /\ reconcileOut = ProbeNum(0)
    /\ clipPaths = NumSegments /\ <<"final", 0>> \in files
    /\ actualAudioDuration = EstimatedDuration(segments)
    /\ error = "probe"
\* The early probe failed and the job completed.
C15_WitnessCompleted ==
    /\ earlyOut = ProbeFail /\ Completed

\* C16: every job eventually reaches a terminal state: the handler writes
\* the completed or the failed response.
C16_EveryJobTerminates ==
    <>(\E k \in 1..Len(res) : IsTerminal(res[k]))

\* The elements of a sequence.
Range(f) == { f[k] : k \in 1..Len(f) }
\* The space-separated words of the lines of a text.
WordsOf(text) ==
    UNION { Range(SplitOn(line, SP)) : line \in Range(SplitOn(text, NL)) }

\* C17: every line of wrapTextSimple(text, maxChars) has at most maxChars
\* characters, or is one whole word of the text, longer than maxChars, alone
\* on its line.
C17_LinesFit ==
    value # NoValue =>
        \A line \in Range(SplitOn(value.v, NL)) :
            \/ Len(line) <= args.maxCharsPerLine
            \/ /\ SP \notin Range(line)
               /\ line \in WordsOf(args.text)
\* "aaaa a" wrapped at 3: the long word keeps its line, unsplit.
C17_Witness ==
    /\ args \in WrapArgs
    /\ args.text = <<"a", "a", "a", "a", SP, "a">> /\ args.maxCharsPerLine = 3
    /\ value = Returned("wrapTextSimple", <<"a", "a", "a", "a", NL, "a">>)
\* "a a a a" wrapped at 3 gives "a a" and "a a".
C17_WitnessWrapped ==
    /\ args \in WrapArgs
    /\ args.text = <<"a", SP, "a", SP, "a", SP, "a">> /\ args.maxCharsPerLine = 3
    /\ value = Returned("wrapTextSimple", <<"a", SP, "a", NL, "a", SP, "a">>)

RECURSIVE Unescape(_)
\* The unescape the claims ascribe to the engine, read left to right: a
\* backslash is removed and the character after it is taken as it is, except
\* that backslash n becomes a newline.
Unescape(s) ==
    IF s = <<>> THEN <<>>
    ELSE IF Head(s) = BS /\ Len(s) >= 2
    THEN <<IF s[2] = "n" THEN NL ELSE s[2]>> \o Unescape(SubSeq(s, 3, Len(s)))
    ELSE <<Head(s)>> \o Unescape(Tail(s))

\* C18: unescaping the escaped overlay text gives the original text back,
\* for the escaping of Step 3 and for the helper escapeTextForFFmpeg.
C18_EscapeRoundTrip ==
    value # NoValue => Unescape(value.v) = args.text

\* C19: an image or audio response with a zero-length body fails the job,
\* and no zero-length image file is handed to clip synthesis.
C19_EmptyBodyFailsJob ==
    /\ \A k \in CallArgs("ffmpeg_clip") : k \notin emptyImages
    /\ emptyImages # {} => ~Completed

\* C20: transitionDuration, width, height and fps take the documented
\* default when the option is missing or is not a positive number, and the
\* given value when it is a positive number.
C20_InvalidOptionGivesDefault ==
    value # NoValue =>
        IF args.given.kind = "number" /\ args.given.n > 0
        THEN value.v = args.given
        ELSE value.v = Number(DefaultOf(args.opt))

\* C21: every effective duration handed to buildTransitionFilter (the same
\* `segment.duration || 3` the clips are synthesized with) is > 0.
C21_EffectiveDurationsPositive ==
    value # NoValue =>
        \A i \in 1..Len(args.segmentDurations) : args.segmentDurations[i] > 0

\* C22: at most one engine process is alive at any time: an invocation is
\* started only after the process of the previous one has exited, also when
\* the previous one ended by its timeout and the fast-path run follows.
C22_OneEngineProcess ==
    Cardinality({k \in Invocations : engine[k].child = "running"}) <= 1

\* C24: the promise of execFFmpeg settles once, by the first event handled:
\* it is resolved iff that event is a close with exit code 0, rejected for
\* every other first event, and no timeout is handled after a close or an
\* error has been.
C24_SettlesExactlyOnce ==
    \A k \in Invocations :
        LET e == engine[k]
            n == Len(e.handled)
        IN  /\ (e.promise = "pending") <=> (e.child # "none" /\ n = 0)
            /\ (e.promise = "resolved") <=>
                   (n > 0 /\ e.handled[1] = "close" /\ e.exit = "code0")
            /\ (e.promise = "rejected") <=>
                   (n > 0 /\ ~(e.handled[1] = "close" /\ e.exit = "code0"))
            /\ \A i, j \in 1..n :
                   (i < j /\ e.handled[i] \in {"close", "error"})
                       => e.handled[j] # "timeout"
            /\ e.signalled => e.handled[1] = "timeout"

\* The timer ran first and the child then closed with exit code 0.
C24_Witness ==
    \E k \in Invocations :
        /\ engine[k].handled = <<"timeout", "close">>
        /\ engine[k].exit = "code0"
        /\ engine[k].promise = "rejected"

\* The child closed with exit code 0 while the timer was armed.
C24_WitnessResolved ==
    \E k \in Invocations :
        /\ engine[k].promise = "resolved"
        /\ engine[k].timer = "cleared"

\* C25: once an invocation has reported the timeout failure, its child
\* process is no longer running.
C25_TimedOutChildNotRunning ==
    \A k \in Invocations :
        (engine[k].handled # <<>> /\ engine[k].handled[1] = "timeout")
            => engine[k].child # "running"

\* C23: when cleanup runs, and when the terminal response has been written,
\* no image download of the job is still in flight and no engine process of
\* the job is alive.
C23_QuiescentAtCleanup ==
    (pc \in {"cleanup_ok", "cleanup_err", "ended"}
        \/ \E k \in 1..Len(res) : IsTerminal(res[k]))
    => /\ \A i \in 1..NumSegments : dl[i] \notin {"fetching", "writing", "delay"}
       /\ \A k \in Invocations : engine[k].child # "running"

\* The stage an external invocation belongs to, in the order of the claim:
\* download_images 1, download_audio 2, synthesize_clips 3, concatenate 4,
\* reconcile_duration 5, mux_audio 6, validate 7, read_artifact 8, cleanup 9.
StageOf(cmd) ==
    CASE cmd = "fetch_image" -> 1
      [] cmd \in {"fetch_audio", "ffprobe_audio"} -> 2
      [] cmd = "ffmpeg_clip" -> 3
      [] cmd \in {"cp", "ffmpeg_concat", "ffmpeg_xfade"} -> 4
      [] cmd \in {"ffprobe_reconcile", "ffmpeg_extend", "ffmpeg_trim"} -> 5
      [] cmd = "ffmpeg_mux" -> 6
      [] cmd = "ffprobe_verify" -> 7
      [] cmd = "read_artifact" -> 8
      [] cmd = "rm" -> 9
\* This step makes the invocation cmd.
Starts(cmd) ==
    /\ Len(calls') > Len(calls)
    /\ calls'[Len(calls')].cmd = cmd
\* C26: the stages run in the fixed order download_images, download_audio,
\* synthesize_clips, concatenate, reconcile_duration, mux_audio, validate,
\* read_artifact, cleanup, complete: the invocations follow the stage order,
\* none is made twice except the one fast-path retry inside concatenate,
\* and a completed job has read its artifact.
C26_FixedStageOrder ==
    /\ \A j, k \in 1..Len(calls) :
          j < k => StageOf(calls[j].cmd) <= StageOf(calls[k].cmd)
    /\ \A j, k \in 1..Len(calls) :
          (j < k /\ calls[j].cmd = calls[k].cmd)
              => (calls[j].cmd \in {"fetch_image", "ffmpeg_clip"}
                  /\ calls[j].arg < calls[k].arg)
    /\ CountCalls(calls, "cp") + CountCalls(calls, "ffmpeg_concat") <= 1
    /\ CountCalls(calls, "cp") + CountCalls(calls, "ffmpeg_xfade") <= 1
    /\ HasCall("ffmpeg_concat") /\ HasCall("ffmpeg_xfade") => fallbackTried = 1
    /\ CountCalls(calls, "ffmpeg_extend") + CountCalls(calls, "ffmpeg_trim") <= 1
    /\ Completed => (HasCall("read_artifact") /\ pc = "ended" /\ error = "")
\* The same for the steps of a request that passed the input checks: a stage
\* is started only by a step that leaves the previous stage succeeded (the
\* catch block's cleanup is the one start after a failure), the artifact is
\* read only after validation passed.
C26_StartsAfterSuccess ==
    /\ Starts("fetch_audio") =>
          \A i \in 1..NumSegments : dl[i] = "done" /\ <<"image", i>> \in files
    /\ (Starts("ffmpeg_clip") /\ clipPaths' = 0) => <<"audio", 0>> \in files
    /\ (Starts("cp") \/ Starts("ffmpeg_xfade") \/ Starts("ffmpeg_concat")) =>
          /\ clipPaths' = NumSegments
          /\ \A i \in 1..NumSegments : <<"clip", i>> \in files'
    /\ Starts("ffprobe_reconcile") => <<"final", 0>> \in files'
    /\ Starts("ffmpeg_mux") =>
          /\ reconcileOut'.kind = "num" /\ reconcileOut'.us > 0
          /\ <<"final", 0>> \in files'
          /\ HasCall("ffmpeg_extend") \/ HasCall("ffmpeg_trim")
                => <<"video-matched", 0>> \in files'
    /\ Starts("ffprobe_verify") => <<"video-with-audio", 0>> \in files'
    /\ Starts("read_artifact") =>
          /\ verifyOut'.ok /\ verifyOut'.hasAudio
          /\ Abs(verifyOut'.duration - actualAudioDuration) <= ValidationTolerance
    /\ (Starts("rm") /\ error' = "") => pc = "read"
    /\ (Completed' /\ ~Completed) => pc \in {"read", "cleanup_ok"}
C26_StagesStartAfterSuccess ==
    [][RejectedInput \/ C26_StartsAfterSuccess]_vars
\* A job that took the fast-path retry after a failed transition run and
\* completed.
C26_Witness ==
    /\ Completed /\ fallbackTried = 1
    /\ HasCall("ffmpeg_xfade") /\ HasCall("ffmpeg_concat")
    /\ HasCall("read_artifact") /\ HasCall("rm")

\* C27: at most batchSize image downloads are in flight, and a download of a
\* later batch has been started only when every download of the batches
\* before it has completed successfully.
C27_BoundedBatches ==
    /\ Cardinality({i \in 1..NumSegments :
                       dl[i] \in {"fetching", "writing", "delay"}}) <= batchSize
    /\ \A i, j \in 1..NumSegments :
          (((i - 1) \div batchSize) < ((j - 1) \div batchSize) /\ dl[j] # "idle")
              => dl[i] = "done"
\* Four segments: the first batch of three is done, the download of the
\* fourth is in flight.
C27_Witness ==
    /\ NumSegments = 4
    /\ \A i \in 1..3 : dl[i] = "done"
    /\ dl[4] \in {"fetching", "writing", "delay"}
\* A full batch in flight at once.
C27_WitnessFullBatch ==
    /\ NumSegments >= 3
    /\ \A i \in 1..3 : dl[i] \in {"fetching", "writing", "delay"}

\* The segments the clips were synthesized for, in the order of the runs.
ClipRuns == SelectSeq(calls, LAMBDA c : c.cmd = "ffmpeg_clip")
\* C28: a concatenation is started only when one clip exists per segment,
\* clip i synthesized for segment i, in order; a failed clip synthesis fails
\* the job, no later clip is synthesized and no concatenation is attempted.
C28_OneClipPerSegment ==
    /\ \A k \in 1..Len(ClipRuns) : ClipRuns[k].arg = k
    /\ Len(ClipRuns) \in {clipPaths, clipPaths + 1}
    /\ (HasCall("cp") \/ HasCall("ffmpeg_concat") \/ HasCall("ffmpeg_xfade")) =>
          /\ clipPaths = NumSegments
          /\ Len(ClipRuns) = NumSegments
          /\ error # "clip"
    /\ error = "clip" =>
          /\ clipPaths < NumSegments
          /\ Len(ClipRuns) = clipPaths + 1
          /\ pc \in {"cleanup_err", "ended"}
          /\ ~result.defined /\ ~Completed
          /\ pc = "ended" => \E k \in 1..Len(res) : res[k] = ErrorResponse("clip")
\* Three segments, three clips, the concatenation has been started.
C28_Witness ==
    /\ NumSegments = 3 /\ clipPaths = 3
    /\ HasCall("ffmpeg_xfade")
    /\ pc = "concat_xfade"
\* The second of three clips failed: the job ended failed with one clip.
C28_WitnessClipFailed ==
    /\ NumSegments = 3 /\ clipPaths = 1
    /\ error = "clip" /\ pc = "ended"

\* The durations the clips are synthesized with: segment.duration || 3.
ClipDurations == SegmentDurations([i \in 1..NumSegments |-> segments[i].duration])
\* C29: the sum of segment durations the reconciler subtracts from the audio
\* duration equals the sum of the durations the clips were synthesized with
\* (which the early estimate uses too), also for missing or zero durations.
C29_ReconcilerSumIsClipSum ==
    HasCall("ffprobe_reconcile") =>
        /\ CalculatedVideoDuration(segments) = SumFirst(ClipDurations, NumSegments)
        /\ CalculatedVideoDuration(segments) = EstimatedDuration(segments)

\* The length of final.mp4 by the path that produced it: the copy, the fast
\* path and the fallback give the sum of the clip lengths; the transition
\* path gives the offset of the last cross-effect plus the length of its
\* right-hand clip.
ConcatenatedLength ==
    IF HasCall("ffmpeg_xfade") /\ fallbackTried = 0
    THEN TransitionOffsets(ClipDurations, DefaultTransitionDuration)[NumSegments - 1]
         + ClipDurations[NumSegments]
    ELSE SumFirst(ClipDurations, NumSegments)
\* The length of the video handed to the mux.
VideoForAudioLength ==
    IF HasCall("ffmpeg_extend")
    THEN ConcatenatedLength + (CHOOSE a \in CallArgs("ffmpeg_extend") : TRUE)
    ELSE IF HasCall("ffmpeg_trim")
    THEN Min(ConcatenatedLength, CHOOSE a \in CallArgs("ffmpeg_trim") : TRUE)
    ELSE ConcatenatedLength
\* C30: on every concatenation path the length of the concatenated video is
\* the sum of segment durations the reconciler assumes, and the video handed
\* to the mux is within 0.1 s of the audio duration.
C30_ConcatLengthIsAssumedSum ==
    /\ HasCall("ffprobe_reconcile") =>
          ConcatenatedLength = CalculatedVideoDuration(segments)
    /\ HasCall("ffmpeg_mux") =>
          Abs(VideoForAudioLength - reconcileOut.us) <= DurationTolerance

\* The length of the left-hand input of transition i: clip 1 for the first,
\* and for the others the output of transition i - 1, its offset plus the
\* length of its right-hand clip.
LeftInputLength(d, offset, i) ==
    IF i = 1 THEN d[1] ELSE offset[i - 1] + d[i]
\* C31: every cross-effect window lies inside its left-hand input:
\* offset_i >= 0 and offset_i + transitionDuration <= the length of the
\* chained output of the transitions before it.
C31_WindowsInsideLeftInput ==
    value # NoValue =>
        LET d == args.segmentDurations
            t == args.transitionDuration
            offset == value.v
        IN  \A i \in 1..Len(offset) :
                /\ offset[i] >= 0
                /\ offset[i] + t <= LeftInputLength(d, offset, i)

\* C32: the frame of the concatenated video is the configured width x height
\* (the defaults 1080 x 1920 when not given) on every concatenation path.
C32_FrameSizeIsConfigured ==
    value # NoValue =>
        /\ value.v.size.w = (IF args.width = 0 THEN 1080 ELSE args.width)
        /\ value.v.size.h = (IF args.height = 0 THEN 1920 ELSE args.height)

\* C33: within one compiled graph all pad labels produced are distinct and
\* the last stage's output pad is the one mapped to the output, in the
\* transition graph and in a chain of overlay / highlight filters given
\* pairwise distinct labels.
C33_PadLabelsDistinct ==
    value # NoValue =>
        LET pads == value.v.pads IN
        /\ \A i, j \in 1..Len(pads) : i # j => pads[i] # pads[j]
        /\ pads[Len(pads)] = value.v.out

\* The characters the escaper is to escape: backslash, colon, single and
\* double quote, brackets, braces, comma, newline.
ListedSpecials == {BS, ":", "'", "\"", "(", ")", "[", "]", "{", "}", ",", NL}
RECURSIVE EscapeEach(_, _)
\* Every character of s that is listed or in `more` with one backslash put
\* before it (a newline becomes backslash n), every other one as it is.
EscapeEach(s, more) ==
    IF s = <<>> THEN <<>>
    ELSE (IF Head(s) \in ListedSpecials \cup more
          THEN <<BS, IF Head(s) = NL THEN "n" ELSE Head(s)>>
          ELSE <<Head(s)>>) \o EscapeEach(Tail(s), more)
\* C34: the escaper escapes every occurrence of each listed special character
\* with exactly one inserted backslash, the input's backslashes first, so
\* that no inserted backslash is escaped again (the equals sign, which is
\* not listed, may be escaped as well).
C34_EachSpecialEscapedOnce ==
    value # NoValue =>
        \/ value.v = EscapeEach(args.text, {})
        \/ value.v = EscapeEach(args.text, {"="})

\* C35: the overlay's visible window [textStart, textEnd] lies inside
\* [0, clipDuration] with textStart <= textEnd; without textTiming it is
\* exactly [0, clipDuration].
C35_WindowInsideClip ==
    value # NoValue =>
        /\ 0 <= value.v.textStart
        /\ value.v.textStart <= value.v.textEnd
        /\ value.v.textEnd <= args.duration
        /\ ~args.textTiming.present =>
              value.v = [textStart |-> 0, textEnd |-> args.duration]

\* The non-empty words of a line, in order.
NonEmptyWords(line) == SelectSeq(SplitOn(line, SP), LAMBDA w : w # <<>>)
\* The lines `block` are the line `line` wrapped greedily: the same words in
\* the same order, and a break stands before a word only where the line
\* before it, a space and that word exceed maxChars.
WrappedGreedily(line, block, maxChars) ==
    /\ NonEmptyWords(JoinWith(block, SP)) = NonEmptyWords(line)
    /\ \A j \in 1..(Len(block) - 1) :
          Len(block[j]) + 1 + Len(Head(SplitOn(block[j + 1], SP))) > maxChars
RECURSIVE EachLineWrapped(_, _, _)
\* The output lines are, block after block, the input lines wrapped.
EachLineWrapped(inLines, outLines, maxChars) ==
    IF inLines = <<>> THEN outLines = <<>>
    ELSE \E k \in 1..Len(outLines) :
            /\ WrappedGreedily(Head(inLines), SubSeq(outLines, 1, k), maxChars)
            /\ EachLineWrapped(Tail(inLines),
                               SubSeq(outLines, k + 1, Len(outLines)), maxChars)
\* C36: wrapTextSimple keeps the sequence of non-empty words, keeps every
\* line break of the input (each input line is wrapped on its own), and
\* breaks greedily, only where appending the next word would exceed maxChars.
C36_WordsAndBreaksKept ==
    value # NoValue =>
        /\ NonEmptyWords(JoinWith(SplitOn(value.v, NL), SP))
              = NonEmptyWords(JoinWith(SplitOn(args.text, NL), SP))
        /\ EachLineWrapped(SplitOn(args.text, NL), SplitOn(value.v, NL),
                           args.maxCharsPerLine)
\* "a a", newline, "a a" wrapped at 1: the newline stays, each line is broken.
C36_Witness ==
    /\ args \in WrapArgs
    /\ args.text = <<"a", SP, "a", NL, "a", SP, "a">> /\ args.maxCharsPerLine = 1
    /\ value = Returned("wrapTextSimple", <<"a", NL, "a", NL, "a", NL, "a">>)

\* a / b as the engine computes it; a division by zero has no number.
Quot(a, b) == IF b = 0 THEN [kind |-> "div0", num |-> a, den |-> 0]
              ELSE [kind |-> "ratio", num |-> a, den |-> b]
\* The value of the alpha expression e at time t, the engine evaluating only
\* the branch an if() selects; 1 - a/b is written (b - a)/b.
AlphaAt(e, t) ==
    IF t < e.fadeInStart THEN Quot(0, 1)
    ELSE IF t < e.fadeInEnd THEN Quot(t - e.fadeInStart, e.fadeInDur)
    ELSE IF t < e.fadeOutStart THEN Quot(1, 1)
    ELSE IF t < e.fadeOutEnd
    THEN (IF e.fadeOutDur = 0 THEN Quot(1, 0)
          ELSE Quot(e.fadeOutDur - (t - e.fadeOutStart), e.fadeOutDur))
    ELSE Quot(0, 1)
\* The calls the claim is about: ordered times, one window of length zero.
ZeroLengthWindow ==
    /\ args.fadeInStart <= args.fadeInEnd
    /\ args.fadeInEnd <= args.fadeOutStart
    /\ args.fadeOutStart <= args.fadeOutEnd
    /\ args.fadeInEnd = args.fadeInStart \/ args.fadeOutEnd = args.fadeOutStart
\* The step behaviour alone, at the times of AlphaTimes and 3 s.
C37_StepBehaviour ==
    (value # NoValue /\ value.fn = "buildAlphaExpression" /\ ZeroLengthWindow) =>
        \A t \in AlphaTimes \cup {3 * Sec} :
            /\ AlphaAt(value.v, t).kind = "ratio"
            /\ args.fadeInEnd = args.fadeInStart =>
                  /\ t < args.fadeInStart => AlphaAt(value.v, t) = Quot(0, 1)
                  /\ (args.fadeInStart <= t /\ t < args.fadeOutStart)
                        => AlphaAt(value.v, t) = Quot(1, 1)
            /\ args.fadeOutEnd = args.fadeOutStart =>
                  /\ (args.fadeInEnd <= t /\ t < args.fadeOutStart)
                        => AlphaAt(value.v, t) = Quot(1, 1)
                  /\ args.fadeOutStart <= t => AlphaAt(value.v, t) = Quot(0, 1)
\* C37: for a zero-length window the expression holds no division by zero
\* and behaves as a step function: 0 before fadeInStart and 1 from it on,
\* 1 before fadeOutStart and 0 from it on.
C37_ZeroWindowIsStep ==
    (value # NoValue /\ value.fn = "buildAlphaExpression" /\ ZeroLengthWindow) =>
        /\ value.v.fadeInDur # 0
        /\ value.v.fadeOutDur # 0
        /\ C37_StepBehaviour

\* The step behaviour for times that toFixed(3) prints exactly.
C37_StepOnMsGrid ==
    (\A x \in {args.fadeInStart, args.fadeInEnd, args.fadeOutStart, args.fadeOutEnd} :
        ToFixed3(x) = x)
    => C37_StepBehaviour

\* C38: for a pulseCount of 0 or a negative one the period printed into the
\* expression of a pulse filter is not zero, negative, infinite or NaN.
C38_PeriodGuarded ==
    (value # NoValue /\ args.pulseCount < 1) =>
        /\ value.v.kind = "number"
        /\ value.v.us > 0

====
